---- MODULE Spec2Model ----
(***************************************************************************)
(* Model of llms/mlx_lm/launch_distributed.py: the MPI launch helper.      *)
(*                                                                         *)
(* One run of main() is a sequential pipeline                              *)
(*   parse_hosts -> check_connection (optional) -> get_mpirun ->           *)
(*   executable substitution -> NamedTemporaryFile scope                   *)
(*   (write, flush, argument assembly, print, os.execv).                   *)
(* Host strings and file contents are sequences of one-character strings,  *)
(* so that str.split, file iteration and str.strip are computed as Python  *)
(* computes them.  Command-line tokens are atoms (TLA+ strings).           *)
(***************************************************************************)
EXTENDS Integers, Sequences, FiniteSets, TLC

VARIABLES
    args,         \* the argparse namespace (line 101)
    pc,           \* position of main()
    hosts,        \* local `hosts` of main (list of host strings)
    probes,       \* outcomes of the ssh probes run so far, in order
    ret,          \* local `ret` of check_connection: last returncode, Unbound before
    which_rc,     \* returncode of `which mpirun`, Unbound before it is run
    mpirun,       \* local `mpirun` of main
    cmd,          \* local `cmd` of main (aliases args.cmd)
    executable,   \* local `executable` of main
    fileCreated,  \* the temporary host file has been created in this run
    fileExists,   \* the temporary host file is on disk
    fileContent,  \* what has been written to the temporary host file
    fileFlushed,  \* hostfile.flush() has returned
    nwritten,     \* hosts consumed by the write loop of main
    mpiargs,      \* local `mpiargs` of main
    execed,       \* os.execv has replaced the process image
    execPath,     \* first argument of os.execv
    execArgv,     \* second argument of os.execv
    exc           \* the exception that ended the run, if any

vars == <<args, pc, hosts, probes, ret, which_rc, mpirun, cmd, executable,
          fileCreated, fileExists, fileContent, fileFlushed, nwritten, mpiargs,
          execed, execPath, execArgv, exc>>

----------------------------------------------------------------------------
(* Bounds of the explored inputs *)

MaxHostsLen == 3     \* longest --hosts string, in characters
MaxFileLen == 3      \* longest host file, in characters
MaxEnv == 2          \* most --env entries on one command line

(* Program constants *)

Unbound == -1                 \* a local that has not been assigned yet
DefaultConnections == 4       \* --connections-per-peer default

----------------------------------------------------------------------------
(* Strings as sequences of characters *)

Comma == ","
NL == "\n"
Space == " "
Whitespace == {Space, NL}

RECURSIVE SeqsUpTo(_, _)
SeqsUpTo(S, n) ==
    IF n = 0 THEN {<<>>}
    ELSE LET shorter == SeqsUpTo(S, n - 1)
         IN  shorter \cup {Append(s, c) : s \in {t \in shorter : Len(t) = n - 1}, c \in S}

(* index of the first occurrence of c in s, 0 when there is none *)
RECURSIVE Find(_, _, _)
Find(s, c, k) ==
    IF k > Len(s) THEN 0
    ELSE IF s[k] = c THEN k
    ELSE Find(s, c, k + 1)

(* str.split(sep) for a one-character separator *)
RECURSIVE Split(_, _)
Split(s, sep) ==
    LET k == Find(s, sep, 1)
    IN  IF k = 0 THEN <<s>>
        ELSE <<SubSeq(s, 1, k - 1)>> \o Split(SubSeq(s, k + 1, Len(s)), sep)

(* iteration over a text file: lines keep their terminator *)
RECURSIVE FileLines(_)
FileLines(content) ==
    IF content = <<>> THEN <<>>
    ELSE LET k == Find(content, NL, 1)
         IN  IF k = 0 THEN <<content>>
             ELSE <<SubSeq(content, 1, k)>> \o FileLines(SubSeq(content, k + 1, Len(content)))

RECURSIVE LStrip(_)
LStrip(s) ==
    IF s # <<>> /\ Head(s) \in Whitespace THEN LStrip(Tail(s)) ELSE s

RECURSIVE RStrip(_)
RStrip(s) ==
    IF s # <<>> /\ s[Len(s)] \in Whitespace THEN RStrip(SubSeq(s, 1, Len(s) - 1)) ELSE s

(* str.strip() *)
Strip(s) == RStrip(LStrip(s))

(* [f(x) for x in seq] *)
StripAll(lines) == [k \in 1..Len(lines) |-> Strip(lines[k])]

(* str(n) for an integer *)
Digits == <<"0", "1", "2", "3", "4", "5", "6", "7", "8", "9">>
RECURSIVE StrNat(_)
StrNat(n) == IF n < 10 THEN Digits[n + 1] ELSE StrNat(n \div 10) \o Digits[(n % 10) + 1]
Str(n) == IF n < 0 THEN "-" \o StrNat(0 - n) ELSE StrNat(n)

----------------------------------------------------------------------------
(* Command lines *)

HostChars == {"a", Comma}
FileChars == {"a", Space, NL}

HostStrings == SeqsUpTo(HostChars, MaxHostsLen)
FileContents == SeqsUpTo(FileChars, MaxFileLen)

OtherHostfile == <<"a", NL>>

(* --hosts / --hostfile as given: None is hosts_given = FALSE *)
HostSpecs ==
    {[hosts_given |-> FALSE, hosts |-> <<>>, hostfile_given |-> FALSE,
      hostfile_exists |-> FALSE, hostfile |-> <<>>]}
    \cup {[hosts_given |-> FALSE, hosts |-> <<>>, hostfile_given |-> TRUE,
           hostfile_exists |-> FALSE, hostfile |-> <<>>]}
    \cup {[hosts_given |-> FALSE, hosts |-> <<>>, hostfile_given |-> TRUE,
           hostfile_exists |-> TRUE, hostfile |-> f] : f \in FileContents}
    \cup {[hosts_given |-> TRUE, hosts |-> s, hostfile_given |-> FALSE,
           hostfile_exists |-> FALSE, hostfile |-> <<>>] : s \in HostStrings}
    \cup {[hosts_given |-> TRUE, hosts |-> s, hostfile_given |-> TRUE,
           hostfile_exists |-> TRUE, hostfile |-> OtherHostfile] : s \in HostStrings}

EnvEntries == <<"A=1", "B=2", "A=3">>
EnvLists == {SubSeq(EnvEntries, 1, n) : n \in 0..MaxEnv}

Commands == {<<"python", "train.py">>, <<"ls">>}

Connections == {DefaultConnections, 12}

----------------------------------------------------------------------------
(* The environment of the run *)

SysExecutable == "/opt/venv/bin/python3"   \* sys.executable
MpirunPath == "/usr/local/bin/mpirun"      \* where `which` finds mpirun
TempName == "/tmp/tmpk3x9"                 \* NamedTemporaryFile().name

ProbeOutcomes == {"ok", "nonzero", "timeout"}

NoExc == [type |-> "none", stage |-> "none", host |-> <<>>]

----------------------------------------------------------------------------
(* Pure parts of the program *)

(* variant: the elif branch tested first, so that --hostfile wins *)
parse_hosts_hostfile_first(a) ==
    IF a.hostfile_given
    THEN IF a.hostfile_exists
         THEN [raised |-> "none", hosts |-> StripAll(FileLines(a.hostfile))]
         ELSE [raised |-> "FileNotFoundError", hosts |-> <<>>]
    ELSE IF a.hosts_given
         THEN [raised |-> "none", hosts |-> Split(a.hosts, Comma)]
         ELSE [raised |-> "ValueError", hosts |-> <<>>]

(* parse_hosts(args): the list returned, or the exception raised *)
parse_hosts(a) ==
    IF a.hosts_given
    THEN [raised |-> "none", hosts |-> Split(a.hosts, Comma)]
    ELSE IF a.hostfile_given
         THEN IF a.hostfile_exists
              THEN [raised |-> "none", hosts |-> StripAll(FileLines(a.hostfile))]
              ELSE [raised |-> "FileNotFoundError", hosts |-> <<>>]
         ELSE [raised |-> "ValueError", hosts |-> <<>>]

(* the returncode reported for a probe that completed *)
Returncode(outcome) == IF outcome = "ok" THEN 0 ELSE 255

(* variant: the timeout flag dropped from the test *)
ProbeFails_returncode_only(success, rc) == rc # 0

(* variant: the returncode dropped from the test *)
ProbeFails_timeout_only(success, rc) == ~success

(* `not success or ret.returncode != 0`, evaluated left to right *)
ProbeFails(success, rc) == (~success) \/ (rc # 0)

(* variant: the returncode of `which` not tested *)
MpirunMissing_never(rc) == FALSE

(* `ret.returncode != 0` of get_mpirun *)
MpirunMissing(rc) == rc # 0

(* stdout of `which mpirun`, captured as bytes *)
WhichStdout(rc) ==
    IF rc = 0 THEN [kind |-> "bytes", v |-> MpirunPath \o "\n"]
    ELSE [kind |-> "bytes", v |-> ""]

(* lines 112-113: the executable that replaces the first command token *)
ChooseExecutable(first) == IF first = "python" THEN SysExecutable ELSE first

(* variant: NamedTemporaryFile(delete=False) *)
TempFileDelete_off == FALSE

(* NamedTemporaryFile() with its defaults: mode "w+b", delete=True *)
TempFileMode == "w+b"
TempFileDelete == TRUE

IsBinaryMode(mode) == mode \in {"w+b", "wb", "rb+"}

(* file.write(data) raises TypeError when data does not match the mode *)
WriteRaises(mode, kind) ==
    IF IsBinaryMode(mode) THEN kind # "bytes" ELSE kind # "str"

(* f"{h} slots=1\n" *)
HostLine(h) == h \o <<Space, "s", "l", "o", "t", "s", "=", "1", NL>>

(* names bound when line 122 runs: module globals and the locals of main *)
ModuleNames == {"argparse", "os", "sys", "DEVNULL", "TimeoutExpired", "run",
                "NamedTemporaryFile", "build_parser", "parse_hosts",
                "check_connection", "get_mpirun", "main"}
MainLocals == {"parser", "args", "hosts", "cmd", "mpirun", "executable",
               "hostfile", "h", "mpiargs"}
NameBound(n) == n \in ModuleNames \cup MainLocals

StrTok(t) == [kind |-> "str", v |-> t]

(* lines 121-124: the -x pairs, then the --mca group *)
RECURSIVE EnvFlags(_)
EnvFlags(env) ==
    IF env = <<>> THEN <<>>
    ELSE <<StrTok("-x"), StrTok(Head(env))>> \o EnvFlags(Tail(env))

MpiArgs(env, connections) ==
    EnvFlags(env) \o <<StrTok("--mca"), StrTok("btl_tcp_links"), StrTok(Str(connections))>>

(* lines 126-134 *)
RunArgs(launcher, flags, name, exe, rest) ==
    <<launcher>> \o flags \o <<StrTok("--hostfile"), StrTok(name), StrTok("--"), StrTok(exe)>>
        \o [k \in 1..Len(rest) |-> StrTok(rest[k])]

(* ''.join(xs) raises TypeError unless every item is a str *)
JoinRaises(xs) == \E k \in 1..Len(xs) : xs[k].kind # "str"

(* os.execv(run_args.pop(0), run_args): the path, then what is left *)
ExecvPath(run_args) == Head(run_args)
ExecvArgv(run_args) == Tail(run_args)

----------------------------------------------------------------------------
(* The run of main() *)

Init ==
    /\ \E hs \in HostSpecs, e \in EnvLists, c \in Commands, n \in Connections,
          ssh \in BOOLEAN, py \in BOOLEAN :
          args = [hosts_given |-> hs.hosts_given, hosts |-> hs.hosts,
                  hostfile_given |-> hs.hostfile_given,
                  hostfile_exists |-> hs.hostfile_exists, hostfile |-> hs.hostfile,
                  env |-> e, connections_per_peer |-> n,
                  skip_ssh_check |-> ssh, skip_python_path |-> py, cmd |-> c]
    /\ pc = "parse_hosts"
    /\ hosts = <<>>
    /\ probes = <<>>
    /\ ret = Unbound
    /\ which_rc = Unbound
    /\ mpirun = [kind |-> "none", v |-> ""]
    /\ cmd = <<>>
    /\ executable = ""
    /\ fileCreated = FALSE
    /\ fileExists = FALSE
    /\ fileContent = <<>>
    /\ fileFlushed = FALSE
    /\ nwritten = 0
    /\ mpiargs = <<>>
    /\ execed = FALSE
    /\ execPath = [kind |-> "none", v |-> ""]
    /\ execArgv = <<>>
    /\ exc = NoExc

(* an exception leaves main before the temporary file exists *)
Raise(type, stage, host) ==
    /\ exc' = [type |-> type, stage |-> stage, host |-> host]
    /\ pc' = "exited"

(* an exception leaves the with block: the file is closed, and deleted *)
RaiseInWith(type, stage) ==
    /\ exc' = [type |-> type, stage |-> stage, host |-> <<>>]
    /\ pc' = "exited"
    /\ fileExists' = IF TempFileDelete THEN FALSE ELSE fileExists

(* line 103 *)
ParseHosts ==
    /\ pc = "parse_hosts"
    /\ LET r == parse_hosts(args)
       IN  IF r.raised # "none"
           THEN Raise(r.raised, "parse_hosts", <<>>) /\ UNCHANGED hosts
           ELSE hosts' = r.hosts /\ pc' = "ssh_check" /\ UNCHANGED exc
    /\ UNCHANGED <<args, probes, ret, which_rc, mpirun, cmd, executable,
                   fileCreated, fileExists, fileContent, fileFlushed, nwritten,
                   mpiargs, execed, execPath, execArgv>>

(* line 105, flag set *)
SkipCheck ==
    /\ pc = "ssh_check"
    /\ args.skip_ssh_check
    /\ pc' = "get_mpirun"
    /\ UNCHANGED <<args, hosts, probes, ret, which_rc, mpirun, cmd, executable,
                   fileCreated, fileExists, fileContent, fileFlushed, nwritten,
                   mpiargs, execed, execPath, execArgv, exc>>

(* lines 105-106, flag not set: enter check_connection *)
CallCheckConnection ==
    /\ pc = "ssh_check"
    /\ ~args.skip_ssh_check
    /\ pc' = "check_connection"
    /\ UNCHANGED <<args, hosts, probes, ret, which_rc, mpirun, cmd, executable,
                   fileCreated, fileExists, fileContent, fileFlushed, nwritten,
                   mpiargs, execed, execPath, execArgv, exc>>

(* lines 77-87: one iteration of the loop, for the next host *)
Probe ==
    /\ pc = "check_connection"
    /\ Len(probes) < Len(hosts)
    /\ \E outcome \in ProbeOutcomes :
          LET h == hosts[Len(probes) + 1]
              success == outcome # "timeout"
              rc == IF outcome = "timeout" THEN ret ELSE Returncode(outcome)
          IN  /\ probes' = Append(probes, outcome)
              /\ ret' = rc
              /\ IF ProbeFails(success, rc)
                 THEN Raise("ValueError", "check_connection", h)
                 ELSE UNCHANGED <<pc, exc>>
    /\ UNCHANGED <<args, hosts, which_rc, mpirun, cmd, executable,
                   fileCreated, fileExists, fileContent, fileFlushed, nwritten,
                   mpiargs, execed, execPath, execArgv>>

(* line 77, list exhausted: check_connection returns *)
CheckReturn ==
    /\ pc = "check_connection"
    /\ Len(probes) = Len(hosts)
    /\ pc' = "get_mpirun"
    /\ UNCHANGED <<args, hosts, probes, ret, which_rc, mpirun, cmd, executable,
                   fileCreated, fileExists, fileContent, fileFlushed, nwritten,
                   mpiargs, execed, execPath, execArgv, exc>>

(* lines 109-110 and 90-96 *)
GetMpirun ==
    /\ pc = "get_mpirun"
    /\ cmd' = args.cmd
    /\ \E rc \in {0, 1} :
          /\ which_rc' = rc
          /\ IF MpirunMissing(rc)
             THEN Raise("ValueError", "get_mpirun", <<>>) /\ UNCHANGED mpirun
             ELSE mpirun' = WhichStdout(rc) /\ pc' = "executable" /\ UNCHANGED exc
    /\ UNCHANGED <<args, hosts, probes, ret, executable,
                   fileCreated, fileExists, fileContent, fileFlushed, nwritten,
                   mpiargs, execed, execPath, execArgv>>

(* lines 111-113 *)
SelectExecutable ==
    /\ pc = "executable"
    /\ executable' = ChooseExecutable(Head(cmd))
    /\ cmd' = Tail(cmd)
    /\ pc' = "tempfile"
    /\ UNCHANGED <<args, hosts, probes, ret, which_rc, mpirun,
                   fileCreated, fileExists, fileContent, fileFlushed, nwritten,
                   mpiargs, execed, execPath, execArgv, exc>>

(* line 116: the file is created on entry to the with block *)
OpenHostfile ==
    /\ pc = "tempfile"
    /\ fileCreated' = TRUE
    /\ fileExists' = TRUE
    /\ fileContent' = <<>>
    /\ pc' = "write"
    /\ UNCHANGED <<args, hosts, probes, ret, which_rc, mpirun, cmd, executable,
                   fileFlushed, nwritten, mpiargs, execed, execPath, execArgv, exc>>

(* lines 117-118: one iteration of the write loop *)
WriteHost ==
    /\ pc = "write"
    /\ nwritten < Len(hosts)
    /\ IF WriteRaises(TempFileMode, "str")
       THEN RaiseInWith("TypeError", "write") /\ UNCHANGED <<fileContent, nwritten>>
       ELSE /\ fileContent' = fileContent \o HostLine(hosts[nwritten + 1])
            /\ nwritten' = nwritten + 1
            /\ UNCHANGED <<pc, exc, fileExists>>
    /\ UNCHANGED <<args, hosts, probes, ret, which_rc, mpirun, cmd, executable,
                   fileCreated, fileFlushed, mpiargs, execed, execPath, execArgv>>

(* line 119 *)
Flush ==
    /\ pc = "write"
    /\ nwritten = Len(hosts)
    /\ fileFlushed' = TRUE
    /\ pc' = "assemble"
    /\ UNCHANGED <<args, hosts, probes, ret, which_rc, mpirun, cmd, executable,
                   fileCreated, fileExists, fileContent, nwritten,
                   mpiargs, execed, execPath, execArgv, exc>>

(* lines 121-136: `env` is looked up at line 122; were it bound to the    *)
(* --env list, the vector would be built, printed and passed to os.execv  *)
AssembleAndExec ==
    /\ pc = "assemble"
    /\ IF ~NameBound("env")
       THEN /\ mpiargs' = <<>>
            /\ RaiseInWith("NameError", "assemble")
            /\ UNCHANGED <<execed, execPath, execArgv>>
       ELSE LET flags == MpiArgs(args.env, args.connections_per_peer)
                run_args == RunArgs(mpirun, flags, TempName, executable, cmd)
            IN  /\ mpiargs' = flags
                /\ IF JoinRaises(run_args)
                   THEN /\ RaiseInWith("TypeError", "print")
                        /\ UNCHANGED <<execed, execPath, execArgv>>
                   ELSE /\ execed' = TRUE
                        /\ execPath' = ExecvPath(run_args)
                        /\ execArgv' = ExecvArgv(run_args)
                        /\ pc' = "replaced"
                        /\ UNCHANGED <<exc, fileExists>>
    /\ UNCHANGED <<args, hosts, probes, ret, which_rc, mpirun, cmd, executable,
                   fileCreated, fileContent, fileFlushed, nwritten>>

Next ==
    \/ ParseHosts
    \/ SkipCheck
    \/ CallCheckConnection
    \/ Probe
    \/ CheckReturn
    \/ GetMpirun
    \/ SelectExecutable
    \/ OpenHostfile
    \/ WriteHost
    \/ Flush
    \/ AssembleAndExec

Spec == Init /\ [][Next]_vars

----------------------------------------------------------------------------
(* Vocabulary of the properties *)

Both == args.hosts_given /\ args.hostfile_given
Neither == ~args.hosts_given /\ ~args.hostfile_given

ParseDone == pc # "parse_hosts"
ParseRaised == exc.stage = "parse_hosts"

AllProbedOK ==
    /\ Len(probes) = Len(hosts)
    /\ \A k \in 1..Len(probes) : probes[k] = "ok"

CheckFinished ==
    /\ ~args.skip_ssh_check
    /\ pc \notin {"parse_hosts", "ssh_check", "check_connection"}
    /\ ~ParseRaised

CheckRaised == exc.stage = "check_connection"

(* the run got past lines 111-113 *)
ExecutableChosen ==
    \/ pc \in {"tempfile", "write", "assemble", "replaced"}
    \/ pc = "exited" /\ exc.stage \in {"write", "assemble", "print"}

(* the run got past the write loop and the flush, or died in them *)
BuildOver ==
    \/ pc \in {"assemble", "replaced"}
    \/ pc = "exited" /\ exc.stage \in {"write", "assemble", "print"}

(* the run entered lines 121-136 and has left them *)
AssemblyOver ==
    \/ pc = "replaced"
    \/ pc = "exited" /\ exc.stage \in {"assemble", "print"}

(* sep.join(parts) *)
RECURSIVE JoinWith(_, _)
JoinWith(parts, sep) ==
    IF parts = <<>> THEN <<>>
    ELSE IF Len(parts) = 1 THEN parts[1]
    ELSE parts[1] \o <<sep>> \o JoinWith(Tail(parts), sep)

(* the membership descriptor the host list calls for *)
RECURSIVE Membership(_)
Membership(hs) ==
    IF hs = <<>> THEN <<>>
    ELSE Head(hs) \o <<Space, "s", "l", "o", "t", "s", "=", "1", NL>> \o Membership(Tail(hs))

(* the launcher flags the command line calls for *)
FlagsAsSpecified(fl) ==
    LET n == Len(args.env)
    IN  /\ Len(fl) = 2 * n + 3
        /\ \A k \in 1..n : fl[2 * k - 1].v = "-x" /\ fl[2 * k].v = args.env[k]
        /\ fl[2 * n + 1].v = "--mca"
        /\ fl[2 * n + 2].v = "btl_tcp_links"
        /\ fl[2 * n + 3].v = Str(args.connections_per_peer)

(* a stage of the pipeline has failed *)
ResolutionFailed ==
    ParseDone /\ (Neither \/ (~args.hosts_given /\ ~args.hostfile_exists))
ReachabilityFailed == \E k \in 1..Len(probes) : probes[k] # "ok"
LocationFailed == which_rc \notin {Unbound, 0}
StageFailed ==
    ResolutionFailed \/ ReachabilityFailed \/ LocationFailed \/ exc.type # "none"

----------------------------------------------------------------------------
(* Properties *)

(* C1: process replacement happens only after host resolution, the        *)
(* reachability check (unless skipped), launcher location, the writing of *)
(* the membership file and argument assembly all succeeded; once any of   *)
(* these stages has failed the run has ended and no replacement was made. *)
C1_ExecOnlyAfterSuccess ==
    /\ StageFailed => pc = "exited" /\ ~execed
    /\ execed =>
          /\ ~ResolutionFailed
          /\ args.skip_ssh_check \/ AllProbedOK
          /\ which_rc = 0
          /\ fileFlushed
          /\ exc.type = "none"

C1_Witness ==
    /\ pc = "exited"
    /\ ~args.skip_ssh_check
    /\ which_rc = 1
    /\ Len(hosts) >= 2
    /\ ~execed

(* C2: after a run that ended with an error, the membership file, if it   *)
(* was created, is no longer on disk.                                     *)
C2_NoFileAfterFailure ==
    (pc = "exited" /\ exc.type # "none" /\ fileCreated) => ~fileExists

C2_Witness ==
    /\ pc = "exited"
    /\ fileCreated
    /\ exc.stage = "write"
    /\ ~fileExists

(* C3: the membership file is created only after every host passed the    *)
(* reachability check (unless the check is skipped) and the launcher was  *)
(* found; it is never created in a run where check_connection or          *)
(* get_mpirun raised.                                                     *)
C3_FileAfterChecks ==
    /\ fileCreated => (args.skip_ssh_check \/ AllProbedOK) /\ which_rc = 0
    /\ (CheckRaised \/ ReachabilityFailed \/ LocationFailed) => ~fileCreated

C3_Witness ==
    /\ fileExists
    /\ ~args.skip_ssh_check
    /\ Len(hosts) >= 2
    /\ AllProbedOK

(* C4: check_connection returns normally exactly when every host was      *)
(* probed and every probe exited 0 in time; otherwise it raises naming    *)
(* the first host whose probe timed out or exited non-zero, and that host *)
(* is the last one probed.                                                *)
C4_FirstFailingHost ==
    CheckFinished =>
        /\ ~CheckRaised <=> AllProbedOK
        /\ CheckRaised =>
              LET k == Len(probes)
              IN  /\ k >= 1
                  /\ k <= Len(hosts)
                  /\ probes[k] \in {"timeout", "nonzero"}
                  /\ \A j \in 1..(k - 1) : probes[j] = "ok"
                  /\ exc.type = "ValueError"
                  /\ exc.host = hosts[k]

C4_Witness ==
    /\ CheckFinished
    /\ CheckRaised
    /\ Len(hosts) >= 3
    /\ Len(probes) = 2
    /\ probes[2] = "timeout"

(* C5, as stated: parse_hosts raises the configuration error when both    *)
(* --hosts and --hostfile are given and when neither is, and returns a    *)
(* list only when exactly one is given.                                   *)
C5_RejectsBothAndNeither ==
    ParseDone =>
        /\ (Both \/ Neither) => ParseRaised /\ exc.type = "ValueError"
        /\ ~ParseRaised => ~Both /\ ~Neither

(* C5, amended: parse_hosts raises the configuration error exactly when   *)
(* neither --hosts nor --hostfile is given; whenever --hosts is given,    *)
(* also together with --hostfile, it returns the comma-separated pieces   *)
(* of the --hosts string and the host file plays no part.                 *)
C5_HostsTakePrecedence ==
    ParseDone =>
        /\ Neither <=> (ParseRaised /\ exc.type = "ValueError")
        /\ args.hosts_given =>
              /\ ~ParseRaised
              /\ JoinWith(hosts, Comma) = args.hosts
              /\ \A k \in 1..Len(hosts) : Find(hosts[k], Comma, 1) = 0

C5_Witness ==
    /\ pc = "ssh_check"
    /\ Both
    /\ Len(hosts) = 2

(* C6: with "python" as first command token the executable becomes the    *)
(* running interpreter unless skip-python-path is set, in which case it   *)
(* stays "python"; any other first token is kept whatever the flag.       *)
C6_SkipPythonPathHonoured ==
    ExecutableChosen =>
        LET first == Head(args.cmd)
        IN  executable = IF first = "python" /\ ~args.skip_python_path
                         THEN SysExecutable
                         ELSE first

(* C7: argument assembly completes for every --env list and yields one    *)
(* (-x, entry) pair per entry in order, then one --mca btl_tcp_links      *)
(* group with the configured integer.                                     *)
C7_EnvFlagsAssembled ==
    AssemblyOver => exc.stage # "assemble" /\ FlagsAsSpecified(mpiargs)

(* C8: a host file yields one host per non-blank line, in file order,     *)
(* each non-empty and free of its line terminator.                        *)
C8_NoEmptyHosts ==
    (ParseDone /\ ~ParseRaised /\ ~args.hosts_given) =>
        /\ \A k \in 1..Len(hosts) : hosts[k] # <<>> /\ Find(hosts[k], NL, 1) = 0
        /\ Len(hosts) = Cardinality({k \in 1..Len(FileLines(args.hostfile)) :
                                        \E j \in 1..Len(FileLines(args.hostfile)[k]) :
                                            FileLines(args.hostfile)[k][j] \notin Whitespace})

(* C9: building the membership file succeeds for every host list and      *)
(* leaves exactly one "<host> slots=1" line per host, in order, flushed.  *)
C9_MembershipWritten ==
    BuildOver =>
        /\ exc.stage # "write"
        /\ fileFlushed
        /\ fileContent = Membership(hosts)

(* C10: os.execv receives the whole assembled vector: the launcher path   *)
(* as argument 0, the flags, --hostfile and the file name, --, then the   *)
(* executable and its arguments.                                          *)
C10_FullVectorExecuted ==
    AssemblyOver =>
        /\ execed
        /\ Len(execArgv) = 2 * Len(args.env) + 3 + 4 + Len(args.cmd)
        /\ execArgv[1] = mpirun
        /\ FlagsAsSpecified(SubSeq(execArgv, 2, 2 * Len(args.env) + 4))
        /\ execArgv[2 * Len(args.env) + 5].v = "--hostfile"
        /\ execArgv[2 * Len(args.env) + 6].v = TempName
        /\ execArgv[2 * Len(args.env) + 7].v = "--"
        /\ execArgv[2 * Len(args.env) + 8].v = executable

====
